---- MODULE Spec2Model ----
(***************************************************************************)
(* Model of crewai.tools.tool_usage.ToolUsage: the pipeline                *)
(*   use -> _tool_calling (retry) -> _select_tool -> _use                  *)
(* together with the collaborators it drives (tools handler, cache,        *)
(* telemetry, printer, the language-model delegate and the tool actions).  *)
(* Every call the code makes on a collaborator is appended to log, the     *)
(* record a mock of that collaborator would keep.                          *)
(***************************************************************************)
EXTENDS Integers, Sequences, FiniteSets, TLC

\* ------------------------------------------------------------------ bounds
\* largest number of consecutive delegate failures a tool_string may script
MaxFails == 2
\* cap of the attempt counter of one ToolUsage object (it only ever grows)
MaxRunAttempts == 5
\* longest tool list the selector is tried on
MaxTools == 3

\* --------------------------------------------------------------- universe
\* threads of control that may call use(); the serial specification runs "t1"
Procs == {"t1", "t2"}
Main == "t1"

\* Python's None, as returned by cache.read for a missing key
None == "None"
\* what a tool's action may return: a falsy and a truthy string
Outputs == {"", "42"}

\* a ToolCalling: function_name and arguments (arguments abstracted to a key)
Call(f, a) == [function_name |-> f, arguments |-> a]
\* the empty last_used_tool of a tools handler nothing was started on
NoCall == Call("", "")
\* the calls the delegate may extract; "Search" names no available tool
Calls == {Call("search", "x"), Call("search", "y"), Call("calc", "x"), Call("Search", "x")}

\* a delegate that fails on every attempt
Always == -1
\* the input of use(): the call the text resolves to, and how often the
\* delegate fails on it before it succeeds
ToolStrings == [call : Calls, fails : (0 .. MaxFails) \cup {Always}]
NoToolString == [call |-> NoCall, fails |-> 0]

\* self.tools: names may repeat, the list order decides
tools == << [name |-> "search"], [name |-> "calc"], [name |-> "search"] >>

\* the names tools and requests are drawn from when the selector is tried alone
ToolNames == {"search", "calc", "Search"}
\* every tool list of at most n tools over those names
ToolLists(n) == UNION {[1 .. k -> [name : ToolNames]] : k \in 0 .. n}

\* self._max_parsing_attempts
max_parsing_attempts == 3

\* one call on a collaborator: which one, its string argument, its number
Ev(e, a, n) == [ev |-> e, arg |-> a, n |-> n]

VARIABLES
    run_attempts,    \* self._run_attempts
    last_used_tool,  \* self.tools_handler.last_used_tool
    cache,           \* self.tools_handler.cache, by call
    pc,              \* per thread: the stage of its invocation of use()
    tool_string,     \* per thread: the argument of use()
    delegate,        \* per thread: failures the delegate still has to produce
    calling,         \* per thread: the extracted ToolCalling
    tool,            \* per thread: index in tools of the selected tool, 0 if none
    result,          \* per thread: the local variable result of _use
    log,             \* per thread: collaborator calls of this invocation
    failure,         \* per thread: the kind of exception use() raised
    prev_calling,    \* per thread: the call the invocation before this one resolved to
    attempts0,       \* per thread: run_attempts when this invocation began
    last0,           \* per thread: last_used_tool when this invocation began
    cache0,          \* per thread: cache when this invocation began
    sel_tools,       \* the selector alone: the tool list it scans
    sel_name,        \* the selector alone: the name asked for
    sel_out,         \* the selector alone: index returned, 0 if it raised, -1 before
    yielded,         \* the calls some invocation returned a fresh or cached result for
    executions,      \* by call: how often its action was run and returned, 2 for more
    dispatched,      \* the calls on_tool_start was called with
    prev_failure     \* per thread: how the invocation before this one failed, if it did

vars == << run_attempts, last_used_tool, cache, pc, tool_string, delegate, calling,
           tool, result, log, failure, prev_calling, attempts0, last0, cache0,
           sel_tools, sel_name, sel_out, yielded, executions, dispatched,
           prev_failure >>

shared == << run_attempts, last_used_tool, cache >>
ghosts == << prev_calling, attempts0, last0, cache0, prev_failure >>
selector == << sel_tools, sel_name, sel_out >>
history == << yielded, executions, dispatched >>

\* --------------------------------------------------------- pure functions
\* Python truthiness of a cache.read result / of a tool output
Truthy(v) == v \notin {None, ""}

\* i18n.errors("task_repeated_usage").format(tool=..., tool_input=...)
task_repeated_usage(c) ==
    "repeated usage of " \o c.function_name \o " with " \o c.arguments

\* a guard comparing identities: a freshly parsed call is never the stored one
check_tool_repeated_usage_is(c, last) == FALSE

\* a guard that returns the last used tool's truth value, not the comparison
check_tool_repeated_usage_any(c, last) == last # NoCall

\* a guard that compares the tool name only
check_tool_repeated_usage_name(c, last) ==
    IF last # NoCall THEN c.function_name = last.function_name ELSE FALSE

\* _check_tool_repeated_usage: None (falsy) when there is no last used tool
check_tool_repeated_usage(c, last) ==
    IF last # NoCall THEN c = last ELSE FALSE

\* a selector that falls back to the first tool instead of raising
select_tool_fallback(tool_name) ==
    LET found == {i \in 1 .. Len(tools) : tools[i].name = tool_name} IN
    IF found = {} THEN 1 ELSE CHOOSE i \in found : \A j \in found : i <= j

\* _select_tool, lines 67-70: the for loop from position i on; the index of
\* the tool it returns, 0 when it falls through to the raise
RECURSIVE select_scan(_, _, _)
select_scan(ts, tool_name, i) ==
    IF i > Len(ts) THEN 0
    ELSE IF ts[i].name = tool_name THEN i
    ELSE select_scan(ts, tool_name, i + 1)

\* a scan that keeps the last match instead of returning at the first
select_in_last(ts, tool_name) ==
    LET found == {i \in 1 .. Len(ts) : ts[i].name = tool_name} IN
    IF found = {} THEN 0 ELSE CHOOSE i \in found : \A j \in found : i >= j

\* _select_tool over a given tool list
select_in(ts, tool_name) == select_scan(ts, tool_name, 1)

\* _select_tool on self.tools
select_tool(tool_name) == select_in(tools, tool_name)

\* cache.read(tool, input)
cache_read(c) == cache[c]

\* a threshold test that lets one more attempt through
attempts_exceeded_late(n) == n > max_parsing_attempts + 1

\* a threshold test with == in place of >
attempts_exceeded_eq(n) == n = max_parsing_attempts + 1

\* _tool_calling, line 107: the counter is past the threshold
attempts_exceeded(n) == n > max_parsing_attempts

\* giving up without the telemetry signal
give_up_silent(n) == << Ev("raise", "extraction", 0) >>

\* _tool_calling, lines 108-109: error telemetry, then the exception is re-raised
give_up(n) == << Ev("tool_usage_error", "", n), Ev("raise", "extraction", 0) >>

\* ------------------------------------------------------- reading the log
\* how many calls of kind e this invocation of thread p made
Count(p, e) == Cardinality({i \in DOMAIN log[p] : log[p][i].ev = e})
\* the k-th call from the end of the log of p, an empty event when there is none
FromEnd(p, k) ==
    IF Len(log[p]) > k THEN log[p][Len(log[p]) - k] ELSE Ev("", "", 0)

\* ------------------------------------------------------------------- Init
Init ==
    /\ run_attempts = 1
    /\ last_used_tool = NoCall
    /\ cache = [c \in Calls |-> None]
    /\ pc = [p \in Procs |-> "START"]
    /\ tool_string = [p \in Procs |-> NoToolString]
    /\ delegate = [p \in Procs |-> 0]
    /\ calling = [p \in Procs |-> NoCall]
    /\ tool = [p \in Procs |-> 0]
    /\ result = [p \in Procs |-> None]
    /\ log = [p \in Procs |-> << >>]
    /\ failure = [p \in Procs |-> "none"]
    /\ prev_calling = [p \in Procs |-> NoCall]
    /\ attempts0 = [p \in Procs |-> 1]
    /\ last0 = [p \in Procs |-> NoCall]
    /\ cache0 = [p \in Procs |-> [c \in Calls |-> None]]
    /\ sel_tools = tools
    /\ sel_name = ""
    /\ sel_out = -1
    /\ yielded = {}
    /\ executions = [c \in Calls |-> 0]
    /\ dispatched = {}
    /\ prev_failure = [p \in Procs |-> "none"]

Idle(p) == pc[p] \in {"START", "DONE", "FAILED"}

\* ---------------------------------------------------------------- actions
\* ToolUsage(tools_handler, tools, llm): a new object on the same handler
New(p) ==
    /\ Idle(p)
    /\ run_attempts # 1
    /\ run_attempts' = 1
    /\ UNCHANGED << last_used_tool, cache, pc, tool_string, delegate, calling,
                    tool, result, log, failure, ghosts >>
    /\ UNCHANGED selector
    /\ UNCHANGED history

\* use(tool_string) is entered
Use(p, ts) ==
    /\ Idle(p)
    /\ ts.fails # 0 => run_attempts < MaxRunAttempts
    /\ pc' = [pc EXCEPT ![p] = "EXTRACTING"]
    /\ tool_string' = [tool_string EXCEPT ![p] = ts]
    /\ delegate' = [delegate EXCEPT ![p] = ts.fails]
    /\ calling' = [calling EXCEPT ![p] = NoCall]
    /\ tool' = [tool EXCEPT ![p] = 0]
    /\ result' = [result EXCEPT ![p] = None]
    /\ log' = [log EXCEPT ![p] = << >>]
    /\ failure' = [failure EXCEPT ![p] = "none"]
    /\ prev_calling' = [prev_calling EXCEPT ![p] = calling[p]]
    /\ prev_failure' = [prev_failure EXCEPT ![p] = failure[p]]
    /\ attempts0' = [attempts0 EXCEPT ![p] = run_attempts]
    /\ last0' = [last0 EXCEPT ![p] = last_used_tool]
    /\ cache0' = [cache0 EXCEPT ![p] = cache]
    /\ UNCHANGED shared
    /\ UNCHANGED selector
    /\ UNCHANGED history

\* _tool_calling, the try block: chain.invoke returns a ToolCalling
ToolCallingOk(p) ==
    /\ pc[p] = "EXTRACTING"
    /\ delegate[p] = 0
    /\ calling' = [calling EXCEPT ![p] = tool_string[p].call]
    /\ log' = [log EXCEPT ![p] = Append(@, Ev("chain.invoke", "ok", run_attempts))]
    /\ pc' = [pc EXCEPT ![p] = "SELECTING"]
    /\ UNCHANGED << shared, tool_string, delegate, tool, result, failure, ghosts >>
    /\ UNCHANGED selector
    /\ UNCHANGED history

\* _tool_calling, the except block: count the attempt, then raise or recurse
ToolCallingExcept(p) ==
    /\ pc[p] = "EXTRACTING"
    /\ delegate[p] # 0
    /\ run_attempts <= MaxRunAttempts
    /\ delegate' = [delegate EXCEPT ![p] = IF @ = Always THEN Always ELSE @ - 1]
    /\ run_attempts' = run_attempts + 1
    /\ IF attempts_exceeded(run_attempts')
       THEN /\ log' = [log EXCEPT ![p] =
                          Append(@, Ev("chain.invoke", "raise", run_attempts))
                              \o give_up(run_attempts')]
            /\ failure' = [failure EXCEPT ![p] = "extraction"]
            /\ pc' = [pc EXCEPT ![p] = "FAILED"]
       ELSE /\ log' = [log EXCEPT ![p] =
                          Append(@, Ev("chain.invoke", "raise", run_attempts))]
            /\ failure' = failure
            /\ pc' = [pc EXCEPT ![p] = "EXTRACTING"]
    /\ UNCHANGED << last_used_tool, cache, tool_string, calling, tool, result, ghosts >>
    /\ UNCHANGED selector
    /\ UNCHANGED history

\* tools_handler.on_tool_start(calling): the handler records the call
on_tool_start(c) == c

\* tools_handler.on_tool_end(calling, output): the handler stores the output
on_tool_end(c, out) == [cache EXCEPT ![c] = out]

\* use, line 37, and _use, line 41: select the tool, then ask the guard
SelectTool(p) ==
    /\ pc[p] = "SELECTING"
    /\ LET idx == select_tool(calling[p].function_name) IN
       IF idx = 0
       THEN /\ log' = [log EXCEPT ![p] = Append(@, Ev("raise", "tool not found", 0))]
            /\ failure' = [failure EXCEPT ![p] = "tool not found"]
            /\ pc' = [pc EXCEPT ![p] = "FAILED"]
            /\ tool' = tool
       ELSE /\ tool' = [tool EXCEPT ![p] = idx]
            /\ pc' = [pc EXCEPT ![p] =
                        IF check_tool_repeated_usage(calling[p], last_used_tool)
                        THEN "REPEATED" ELSE "STARTING"]
            /\ UNCHANGED << log, failure >>
    /\ UNCHANGED << shared, tool_string, delegate, calling, result, ghosts >>
    /\ UNCHANGED selector
    /\ UNCHANGED history

\* _use, lines 42-44: the repeated-usage message becomes the result
Repeated(p) ==
    /\ pc[p] = "REPEATED"
    /\ result' = [result EXCEPT ![p] = task_repeated_usage(calling[p])]
    /\ pc' = [pc EXCEPT ![p] = "REPORTING"]
    /\ UNCHANGED << shared, tool_string, delegate, calling, tool, log, failure, ghosts >>
    /\ UNCHANGED selector
    /\ UNCHANGED history

\* guard and on_tool_start under one lock: the guard is asked again here
StartAndRead_locked(p) ==
    /\ pc[p] = "STARTING"
    /\ IF check_tool_repeated_usage(calling[p], last_used_tool)
       THEN /\ pc' = [pc EXCEPT ![p] = "REPEATED"]
            /\ UNCHANGED << last_used_tool, result, log, dispatched >>
       ELSE LET r == cache_read(calling[p]) IN
            /\ last_used_tool' = on_tool_start(calling[p])
            /\ result' = [result EXCEPT ![p] = r]
            /\ log' = [log EXCEPT ![p] =
                          @ \o << Ev("on_tool_start", calling[p].function_name, 0),
                                  Ev("cache.read", r, 0) >>]
            /\ pc' = [pc EXCEPT ![p] = IF ~ Truthy(r) THEN "EXECUTING" ELSE "CACHED"]
            /\ dispatched' = dispatched \cup {calling[p]}
    /\ UNCHANGED << run_attempts, cache, tool_string, delegate, calling, tool,
                    failure, ghosts >>
    /\ UNCHANGED selector
    /\ UNCHANGED << yielded, executions >>

\* the handler is never told that the tool starts
StartAndRead_unrecorded(p) ==
    /\ pc[p] = "STARTING"
    /\ LET r == cache_read(calling[p]) IN
        /\ result' = [result EXCEPT ![p] = r]
        /\ log' = [log EXCEPT ![p] = Append(@, Ev("cache.read", r, 0))]
        /\ pc' = [pc EXCEPT ![p] = IF ~ Truthy(r) THEN "EXECUTING" ELSE "CACHED"]
    /\ UNCHANGED << shared, tool_string, delegate, calling, tool, failure, ghosts >>
    /\ UNCHANGED selector
    /\ UNCHANGED history

\* on_tool_start moved into the if: the handler is told only on a cache miss
StartAndRead_on_miss(p) ==
    /\ pc[p] = "STARTING"
    /\ LET r == cache_read(calling[p]) IN
        /\ result' = [result EXCEPT ![p] = r]
        /\ last_used_tool' = IF ~ Truthy(r) THEN on_tool_start(calling[p]) ELSE last_used_tool
        /\ log' = [log EXCEPT ![p] =
                      @ \o << Ev("cache.read", r, 0) >>
                        \o (IF ~ Truthy(r)
                            THEN << Ev("on_tool_start", calling[p].function_name, 0) >>
                            ELSE << >>)]
        /\ pc' = [pc EXCEPT ![p] = IF ~ Truthy(r) THEN "EXECUTING" ELSE "CACHED"]
    /\ UNCHANGED << run_attempts, cache, tool_string, delegate, calling, tool,
                    failure, ghosts >>
    /\ UNCHANGED selector
    /\ dispatched' = IF ~ Truthy(cache_read(calling[p]))
                     THEN dispatched \cup {calling[p]} ELSE dispatched
    /\ UNCHANGED << yielded, executions >>

\* _use, lines 46-52: on_tool_start, cache.read, and the test of its result
StartAndRead(p) ==
    /\ pc[p] = "STARTING"
    /\ last_used_tool' = on_tool_start(calling[p])
    /\ LET r == cache_read(calling[p]) IN
        /\ result' = [result EXCEPT ![p] = r]
        /\ log' = [log EXCEPT ![p] =
                      @ \o << Ev("on_tool_start", calling[p].function_name, 0),
                              Ev("cache.read", r, 0) >>]
        /\ pc' = [pc EXCEPT ![p] = IF ~ Truthy(r) THEN "EXECUTING" ELSE "CACHED"]
    /\ UNCHANGED << run_attempts, cache, tool_string, delegate, calling, tool,
                    failure, ghosts >>
    /\ UNCHANGED selector
    /\ dispatched' = dispatched \cup {calling[p]}
    /\ UNCHANGED << yielded, executions >>

\* on_tool_end moved out of the if: the handler is told on a cache hit too
Cached_on_tool_end(p) ==
    /\ pc[p] = "CACHED"
    /\ cache' = on_tool_end(calling[p], result[p])
    /\ log' = [log EXCEPT ![p] = Append(@, Ev("on_tool_end", result[p], 0))]
    /\ pc' = [pc EXCEPT ![p] = "REPORTING"]
    /\ UNCHANGED << run_attempts, last_used_tool, tool_string, delegate, calling, tool,
                    result, failure, ghosts >>
    /\ UNCHANGED selector
    /\ UNCHANGED history

\* _use, line 52 not taken: the cached value stays the result
Cached(p) ==
    /\ pc[p] = "CACHED"
    /\ pc' = [pc EXCEPT ![p] = "REPORTING"]
    /\ UNCHANGED << shared, tool_string, delegate, calling, tool, result, log,
                    failure, ghosts >>
    /\ UNCHANGED selector
    /\ UNCHANGED history

\* _use, lines 53-54: the action returns out, the handler is told
ToolRun(p, out) ==
    /\ pc[p] = "EXECUTING"
    /\ result' = [result EXCEPT ![p] = out]
    /\ cache' = on_tool_end(calling[p], out)
    /\ log' = [log EXCEPT ![p] =
                  @ \o << Ev("_run", out, tool[p]), Ev("on_tool_end", out, 0) >>]
    /\ pc' = [pc EXCEPT ![p] = "REPORTING"]
    /\ UNCHANGED << run_attempts, last_used_tool, tool_string, delegate, calling,
                    tool, failure, ghosts >>
    /\ UNCHANGED selector
    /\ executions' = [executions EXCEPT ![calling[p]] = IF @ < 2 THEN @ + 1 ELSE @]
    /\ UNCHANGED << yielded, dispatched >>

\* an action failure caught and turned into the result
ToolRunRaises_caught(p) ==
    /\ pc[p] = "EXECUTING"
    /\ log' = [log EXCEPT ![p] = Append(@, Ev("_run", "raise", tool[p]))]
    /\ result' = [result EXCEPT ![p] = "error"]
    /\ pc' = [pc EXCEPT ![p] = "REPORTING"]
    /\ UNCHANGED << shared, tool_string, delegate, calling, tool, failure, ghosts >>
    /\ UNCHANGED selector
    /\ UNCHANGED history

\* _use, line 53: the action raises, and nothing in _use or use catches it
ToolRunRaises(p) ==
    /\ pc[p] = "EXECUTING"
    /\ log' = [log EXCEPT ![p] =
                  @ \o << Ev("_run", "raise", tool[p]), Ev("raise", "execution", 0) >>]
    /\ failure' = [failure EXCEPT ![p] = "execution"]
    /\ pc' = [pc EXCEPT ![p] = "FAILED"]
    /\ UNCHANGED << shared, tool_string, delegate, calling, tool, result, ghosts >>
    /\ UNCHANGED selector
    /\ UNCHANGED history

\* _use, lines 56-60: print, usage telemetry, return
Report(p) ==
    /\ pc[p] = "REPORTING"
    /\ log' = [log EXCEPT ![p] =
                  @ \o << Ev("print", result[p], 0),
                          Ev("tool_usage", tools[tool[p]].name, run_attempts),
                          Ev("return", result[p], 0) >>]
    /\ pc' = [pc EXCEPT ![p] = "DONE"]
    /\ UNCHANGED << shared, tool_string, delegate, calling, tool, result, failure, ghosts >>
    /\ UNCHANGED selector
    /\ yielded' = IF Count(p, "on_tool_start") > 0
                  THEN yielded \cup {calling[p]} ELSE yielded
    /\ UNCHANGED << executions, dispatched >>

\* serialized invocations: one thread calls use() again and again
Next ==
    \/ New(Main)
    \/ \E ts \in ToolStrings : Use(Main, ts)
    \/ ToolCallingOk(Main)
    \/ ToolCallingExcept(Main)
    \/ SelectTool(Main)
    \/ Repeated(Main)
    \/ StartAndRead(Main)
    \/ Cached(Main)
    \/ \E out \in Outputs : ToolRun(Main, out)
    \/ ToolRunRaises(Main)
    \/ Report(Main)

Spec == Init /\ [][Next]_vars

\* the steps of a running invocation: none of them waits for anything but
\* the delegate or the tool's action, which return or raise
Step(p) ==
    \/ ToolCallingOk(p)
    \/ ToolCallingExcept(p)
    \/ SelectTool(p)
    \/ Repeated(p)
    \/ StartAndRead(p)
    \/ Cached(p)
    \/ \E out \in Outputs : ToolRun(p, out)
    \/ ToolRunRaises(p)
    \/ Report(p)

\* serialized invocations whose synchronous steps are always carried out
SpecLive == Spec /\ WF_vars(Step(Main))

\* ------------------------------------------ invocations that are not serialized
\* the inputs of the interleaved invocations: the delegate answers at once
ConcStrings == {ts \in ToolStrings : ts.fails = 0}

\* thread p has not yet finished a first invocation
FirstUses(p) == prev_calling[p] = NoCall

\* two threads call use() on the same handler and cache, each of them at most
\* twice, their steps interleaving freely: the code holds no lock anywhere
NextConc ==
    \E p \in Procs :
        \/ \E ts \in ConcStrings : FirstUses(p) /\ Use(p, ts)
        \/ ToolCallingOk(p)
        \/ SelectTool(p)
        \/ Repeated(p)
        \/ StartAndRead(p)
        \/ Cached(p)
        \/ \E out \in Outputs : ToolRun(p, out)
        \/ ToolRunRaises(p)
        \/ Report(p)

SpecConc == Init /\ [][NextConc]_vars

\* any tool list and any requested name, nothing selected yet
InitSelector ==
    /\ run_attempts = 1
    /\ last_used_tool = NoCall
    /\ cache = [c \in Calls |-> None]
    /\ pc = [p \in Procs |-> "START"]
    /\ tool_string = [p \in Procs |-> NoToolString]
    /\ delegate = [p \in Procs |-> 0]
    /\ calling = [p \in Procs |-> NoCall]
    /\ tool = [p \in Procs |-> 0]
    /\ result = [p \in Procs |-> None]
    /\ log = [p \in Procs |-> << >>]
    /\ failure = [p \in Procs |-> "none"]
    /\ prev_calling = [p \in Procs |-> NoCall]
    /\ attempts0 = [p \in Procs |-> 1]
    /\ last0 = [p \in Procs |-> NoCall]
    /\ cache0 = [p \in Procs |-> [c \in Calls |-> None]]
    /\ sel_tools \in ToolLists(MaxTools)
    /\ sel_name \in ToolNames
    /\ sel_out = -1
    /\ yielded = {}
    /\ executions = [c \in Calls |-> 0]
    /\ dispatched = {}
    /\ prev_failure = [p \in Procs |-> "none"]

\* _select_tool(tool_name) is called on the list
Select ==
    /\ sel_out = -1
    /\ sel_out' = select_in(sel_tools, sel_name)
    /\ UNCHANGED << shared, pc, tool_string, delegate, calling, tool, result, log,
                    failure, ghosts, sel_tools, sel_name, history >>

NextSelector == Select

SpecSelector == InitSelector /\ [][NextSelector]_vars

\* the invocation of p is over
Ended(p) == pc[p] \in {"DONE", "FAILED"}
\* p made none of the calls of _use
NothingOfUse(p) ==
    \A e \in {"on_tool_start", "cache.read", "_run", "on_tool_end", "print", "tool_usage"} :
        Count(p, e) = 0

\* some tool of self.tools carries exactly this name
Available(name) == \E i \in DOMAIN tools : tools[i].name = name

\* ------------------------------------------------------------------ C1
\* C1 as stated: when an invocation resolves to the same call c as the
\* invocation right before it, it returns the repeated-usage message and
\* makes no call of the tool's action.
C1_AnyRepeatedCallIsSuppressed ==
    (Ended(Main) /\ calling[Main] # NoCall /\ prev_calling[Main] = calling[Main])
        => /\ pc[Main] = "DONE"
           /\ FromEnd(Main, 0) = Ev("return", task_repeated_usage(calling[Main]), 0)
           /\ Count(Main, "_run") = 0

\* C1 amended: when an invocation resolves to the same call c as the
\* invocation right before it and c names an available tool, it returns the
\* repeated-usage message and makes no call of the tool's action.
C1_RepeatSuppression ==
    (Ended(Main) /\ calling[Main] # NoCall /\ prev_calling[Main] = calling[Main]
        /\ Available(calling[Main].function_name))
        => /\ pc[Main] = "DONE"
           /\ FromEnd(Main, 0) = Ev("return", task_repeated_usage(calling[Main]), 0)
           /\ Count(Main, "_run") = 0

C1_Witness ==
    /\ pc[Main] = "DONE"
    /\ calling[Main] = Call("search", "x")
    /\ prev_calling[Main] = calling[Main]
    /\ result[Main] = task_repeated_usage(calling[Main])
    /\ Count(Main, "_run") = 0

\* ------------------------------------------------------------------ C2
\* C2 as stated: in a non-repeated invocation, when cache.read returned a
\* present value (anything but None), the action is never called and the
\* value returned is that cached value.
C2_CachePrecedence ==
    \A i \in DOMAIN log[Main] :
        (log[Main][i].ev = "cache.read" /\ log[Main][i].arg # None)
            => /\ Count(Main, "_run") = 0
               /\ pc[Main] = "DONE" => FromEnd(Main, 0) = Ev("return", log[Main][i].arg, 0)

\* ------------------------------------------------------------------ C3
\* C3 as stated: with a delegate that always fails, an invocation whose
\* extraction failure has reached the caller has called the delegate exactly
\* max_attempts times.
C3_RetryBound ==
    (pc[Main] = "FAILED" /\ tool_string[Main].fails = Always)
        => Count(Main, "chain.invoke") = max_parsing_attempts

\* ------------------------------------------------------------------ C4
\* C4 as stated: whenever an invocation of use() begins, the attempt counter
\* is 1.
C4_CounterStartsAtOne ==
    pc[Main] # "START" => attempts0[Main] = 1

\* ------------------------------------------------------------------ C5
\* C5 as stated: with a delegate that fails exactly twice and then succeeds,
\* extraction returns the call (no failure, no error telemetry) and the
\* attempt counter is 3 when extraction returns.
C5_RecoveryWithinBound ==
    (tool_string[Main].fails = 2 /\ pc[Main] \notin {"START", "EXTRACTING"})
        => /\ failure[Main] # "extraction"
           /\ calling[Main] = tool_string[Main].call
           /\ Count(Main, "tool_usage_error") = 0
           /\ pc[Main] = "SELECTING" => run_attempts = 3

\* ------------------------------------------------------------------ C6
\* C6: an invocation that failed in extraction made exactly one
\* error-telemetry call, with the counter past the threshold, right after the
\* failed attempt that exceeded it and as the last call before the exception
\* left use(); it returned nothing, made none of the calls of
\* _use, and left last_used_tool and the cache as it found them.
C6_ExtractionFailFast ==
    (pc[Main] = "FAILED" /\ failure[Main] = "extraction")
        => /\ Count(Main, "tool_usage_error") = 1
           /\ FromEnd(Main, 1).ev = "tool_usage_error"
           /\ FromEnd(Main, 1).n > max_parsing_attempts
           /\ FromEnd(Main, 0) = Ev("raise", "extraction", 0)
           /\ FromEnd(Main, 2) = Ev("chain.invoke", "raise", FromEnd(Main, 1).n - 1)
           /\ Count(Main, "return") = 0
           /\ NothingOfUse(Main)
           /\ last_used_tool = last0[Main]
           /\ cache = cache0[Main]

C6_Witness ==
    /\ pc[Main] = "FAILED"
    /\ failure[Main] = "extraction"
    /\ Count(Main, "chain.invoke") = 3
    /\ last0[Main] # NoCall
    /\ cache0[Main][Call("search", "x")] = "42"

\* ------------------------------------------------------------------ C7
\* C7: once extraction has produced a call whose function_name no tool
\* carries, the invocation is failed with tool-not-found; the delegate's one
\* successful answer is the last call before the exception, nothing was
\* returned, none of the calls of _use was made, and last_used_tool and the
\* cache are as the invocation found them.
C7_ToolNotFoundTerminal ==
    (pc[Main] \notin {"START", "EXTRACTING", "SELECTING"} /\ calling[Main] # NoCall
        /\ ~ Available(calling[Main].function_name))
        => /\ pc[Main] = "FAILED"
           /\ failure[Main] = "tool not found"
           /\ FromEnd(Main, 0) = Ev("raise", "tool not found", 0)
           /\ FromEnd(Main, 1).ev = "chain.invoke" /\ FromEnd(Main, 1).arg = "ok"
           /\ Count(Main, "chain.invoke") = Len(log[Main]) - 1
           /\ Count(Main, "return") = 0
           /\ NothingOfUse(Main)
           /\ last_used_tool = last0[Main]
           /\ cache = cache0[Main]

C7_Witness ==
    /\ pc[Main] = "FAILED"
    /\ failure[Main] = "tool not found"
    /\ calling[Main] = Call("Search", "x")
    /\ last0[Main] = Call("search", "x")
    /\ Count(Main, "chain.invoke") = 2

\* ------------------------------------------------------------------ C8
\* C8: once the tool's action has raised, the invocation is failed with that
\* exception: the action was called exactly once, the raising call is the
\* last call before the exception, nothing was returned, and on_tool_end,
\* print and usage telemetry were not called.
C8_ExecutionFailureSurfaced ==
    (\E i \in DOMAIN log[Main] : log[Main][i].ev = "_run" /\ log[Main][i].arg = "raise")
        => /\ pc[Main] = "FAILED"
           /\ failure[Main] = "execution"
           /\ Count(Main, "_run") = 1
           /\ FromEnd(Main, 1).ev = "_run"
           /\ FromEnd(Main, 0) = Ev("raise", "execution", 0)
           /\ Count(Main, "return") = 0
           /\ Count(Main, "on_tool_end") = 0
           /\ Count(Main, "print") = 0
           /\ Count(Main, "tool_usage") = 0

C8_Witness ==
    /\ pc[Main] = "FAILED"
    /\ failure[Main] = "execution"
    /\ Count(Main, "_run") = 1
    /\ Count(Main, "on_tool_start") = 1
    /\ cache0[Main][calling[Main]] = ""

\* ------------------------------------------------------------------ C9
\* the stage of the per-invocation state machine thread p is in: between the
\* guard's answer and the test of the cache's answer it is still dispatching
Stage(p) == IF pc[p] = "STARTING" THEN "SELECTING" ELSE pc[p]

\* the arrows of the state machine; DONE and FAILED lead to the START of the
\* next invocation, which enters EXTRACTING at once
Arrows ==
    { << "START", "EXTRACTING" >>, << "DONE", "EXTRACTING" >>, << "FAILED", "EXTRACTING" >>,
      << "EXTRACTING", "SELECTING" >>, << "EXTRACTING", "FAILED" >>,
      << "SELECTING", "REPEATED" >>, << "SELECTING", "CACHED" >>,
      << "SELECTING", "EXECUTING" >>, << "SELECTING", "FAILED" >>,
      << "REPEATED", "REPORTING" >>, << "CACHED", "REPORTING" >>,
      << "EXECUTING", "REPORTING" >>, << "EXECUTING", "FAILED" >>,
      << "REPORTING", "DONE" >> }

\* C9: every change of stage follows an arrow of the state machine, the
\* delegate is called at most 3 times per invocation, REPORTING is entered
\* from EXECUTING only when the action returned, and a FAILED invocation
\* carries the failure of the stage it came from.
C9_StateMachine ==
    /\ [][ /\ Stage(Main)' # Stage(Main) => << Stage(Main), Stage(Main)' >> \in Arrows
           /\ (Stage(Main) = "EXECUTING" /\ Stage(Main)' = "REPORTING")
                => log'[Main][Len(log'[Main])].ev = "on_tool_end"
           /\ (Stage(Main)' = "FAILED" /\ Stage(Main) # "FAILED")
                => failure'[Main] = CASE Stage(Main) = "EXTRACTING" -> "extraction"
                                      [] Stage(Main) = "SELECTING" -> "tool not found"
                                      [] OTHER -> "execution" ]_vars
    /\ [](Count(Main, "chain.invoke") <= 3)

C9_Witness ==
    /\ pc[Main] = "DONE"
    /\ Count(Main, "chain.invoke") = 3
    /\ Count(Main, "_run") = 1
    /\ attempts0[Main] = 1

\* ------------------------------------------------------------------ C10
\* C10 as stated: a successful invocation returns the repeated-usage message
\* if and only if the guard found the call repeated; otherwise the cached
\* value if and only if the cache held a value for the call; otherwise the
\* output the action has just computed.
C10_ReturnedValue ==
    pc[Main] = "DONE" =>
        LET c == calling[Main]
            ret == FromEnd(Main, 0).arg
        IN  /\ FromEnd(Main, 0).ev = "return"
            /\ IF check_tool_repeated_usage(c, last0[Main])
               THEN ret = task_repeated_usage(c) /\ Count(Main, "_run") = 0
               ELSE /\ ret # task_repeated_usage(c)
                    /\ IF cache0[Main][c] # None
                       THEN ret = cache0[Main][c] /\ Count(Main, "_run") = 0
                       ELSE /\ Count(Main, "_run") = 1
                            /\ \E i \in DOMAIN log[Main] :
                                  log[Main][i].ev = "_run" /\ log[Main][i].arg = ret

\* ------------------------------------------------------------------ C11
\* the positions of the list whose tool carries exactly the requested name
Matches == {i \in DOMAIN sel_tools : sel_tools[i].name = sel_name}

\* C11: once the selector has answered, it has raised if no tool of the list
\* carries exactly (case included) the requested name, and otherwise it has
\* returned a tool of that name which no tool of that name precedes: the only
\* one when the name occurs once, the first in list order when it repeats.
C11_SelectorExactness ==
    sel_out # -1 =>
        /\ Matches = {} => sel_out = 0
        /\ Matches # {} => sel_out \in Matches /\ \A j \in Matches : sel_out <= j

C11_Witness ==
    /\ sel_tools = << [name |-> "Search"], [name |-> "search"], [name |-> "search"] >>
    /\ sel_name = "search"
    /\ sel_out = 2

\* ------------------------------------------------------------------ C12
\* the invocation of p went through the repeated branch of _use
TookRepeated(p) ==
    \/ pc[p] = "REPEATED"
    \/ pc[p] \in {"REPORTING", "DONE"} /\ result[p] = task_repeated_usage(calling[p])

\* C12: when _use is entered, the repeated branch is taken if and only if a
\* last-used call exists and equals the current call; an invocation in that
\* branch calls neither on_tool_start nor on_tool_end, neither reads the
\* cache nor runs the action, and leaves the cache and the last-used call as
\* it found them, the last-used call still being the current call, so that
\* the guard answers the same to the next identical call.
C12_RepeatedBranchFrame ==
    /\ [][ (pc[Main] = "SELECTING" /\ pc'[Main] \in {"REPEATED", "STARTING"})
            => (pc'[Main] = "REPEATED"
                  <=> (last_used_tool # NoCall /\ calling[Main] = last_used_tool)) ]_vars
    /\ [](TookRepeated(Main)
            => /\ \A e \in {"on_tool_start", "on_tool_end", "cache.read", "_run"} :
                    Count(Main, e) = 0
               /\ cache = cache0[Main]
               /\ last_used_tool = last0[Main]
               /\ last_used_tool = calling[Main])

C12_Witness ==
    /\ pc[Main] = "DONE"
    /\ TookRepeated(Main)
    /\ prev_calling[Main] = calling[Main]
    /\ cache[calling[Main]] = "42"
    /\ last_used_tool = Call("calc", "x")

\* ------------------------------------------------------------------ C13
\* C13: on_tool_end is called at most once per invocation, exactly as often
\* as the action was run and returned, each time right after that run and
\* with its output, which is also the value the invocation returns; an
\* invocation on the repeated or the cached branch, or whose action raised,
\* never calls it.
C13_OnToolEndOnlyAfterRun ==
    /\ Count(Main, "on_tool_end") <= 1
    /\ Count(Main, "on_tool_end") =
          Cardinality({i \in DOMAIN log[Main] :
                          log[Main][i].ev = "_run" /\ log[Main][i].arg # "raise"})
    /\ \A i \in DOMAIN log[Main] :
          log[Main][i].ev = "on_tool_end"
              => /\ i > 1
                 /\ log[Main][i - 1].ev = "_run"
                 /\ log[Main][i - 1].arg = log[Main][i].arg
                 /\ pc[Main] = "DONE" => FromEnd(Main, 0) = Ev("return", log[Main][i].arg, 0)
    /\ (TookRepeated(Main) \/ pc[Main] = "CACHED" \/ failure[Main] = "execution")
          => Count(Main, "on_tool_end") = 0
    /\ (pc[Main] = "DONE" /\ Count(Main, "on_tool_end") = 0) => Count(Main, "_run") = 0

C13_Witness ==
    /\ pc[Main] = "DONE"
    /\ Count(Main, "on_tool_end") = 1
    /\ FromEnd(Main, 0) = Ev("return", "42", 0)
    /\ cache0[Main][calling[Main]] = None
    /\ cache[calling[Main]] = "42"

\* ------------------------------------------------------------------ C14
\* C14: every cache.read and every run of the action comes after the
\* on_tool_start of the same invocation, and an invocation that entered _use
\* with the guard false has, once it is over, called on_tool_start exactly
\* once and left the last-used call equal to its own call, whether it
\* returned a cached value, a fresh output, or failed in the action.
C14_StartBeforeCacheAndRun ==
    /\ \A i \in DOMAIN log[Main] :
          log[Main][i].ev \in {"cache.read", "_run"}
              => \E j \in 1 .. (i - 1) : log[Main][j].ev = "on_tool_start"
    /\ (Ended(Main) /\ tool[Main] # 0
          /\ ~ (last0[Main] # NoCall /\ calling[Main] = last0[Main]))
          => /\ Count(Main, "on_tool_start") = 1
             /\ Count(Main, "cache.read") = 1
             /\ last_used_tool = calling[Main]

C14_Witness ==
    /\ pc[Main] = "DONE"
    /\ last0[Main] = Call("calc", "x")
    /\ calling[Main] = Call("search", "y")
    /\ Count(Main, "_run") = 0
    /\ FromEnd(Main, 0) = Ev("return", "42", 0)
    /\ last_used_tool = calling[Main]

\* ------------------------------------------------------------------ C15
\* C15 as stated: a successful invocation makes exactly one usage-telemetry
\* call, right after the print and right before returning, with the selected
\* tool's name and with attempts equal to the number of times this invocation
\* called the delegate, which is at most 3.
C15_UsageTelemetry ==
    pc[Main] = "DONE"
        => /\ Count(Main, "tool_usage") = 1
           /\ FromEnd(Main, 2).ev = "print"
           /\ FromEnd(Main, 1).ev = "tool_usage"
           /\ FromEnd(Main, 1).arg = tools[tool[Main]].name
           /\ FromEnd(Main, 1).n = Count(Main, "chain.invoke")
           /\ FromEnd(Main, 1).n <= max_parsing_attempts

\* ------------------------------------------------------------------ C16
\* C16: as long as the delegate and the action return or raise, an invocation
\* that has entered use() reaches DONE or FAILED.
C16_Termination == (pc[Main] = "EXTRACTING") ~> Ended(Main)

C16_Witness ==
    /\ pc[Main] = "FAILED"
    /\ tool_string[Main].fails = Always
    /\ attempts0[Main] > max_parsing_attempts
    /\ Count(Main, "chain.invoke") = 1

\* the invocation of p returned the repeated-usage message for its call
ReturnedRepeated(p) ==
    pc[p] = "DONE" /\ FromEnd(p, 0) = Ev("return", task_repeated_usage(calling[p]), 0)

\* ------------------------------------------------------------------ C18
\* C18 as stated: an invocation returns the repeated-usage message for call c
\* only if an earlier invocation returned a fresh or cached result for c.
C18_RepeatedOnlyAfterResult ==
    ReturnedRepeated(Main) => calling[Main] \in yielded

\* C18 amended: an invocation returns the repeated-usage message for call c
\* only if an earlier invocation was dispatched for c (on_tool_start was
\* called with c), whether or not its action then returned; an invocation of
\* c that follows an invocation of c whose action raised does return the
\* repeated-usage message.
C18_RepeatedOnlyAfterDispatch ==
    /\ ReturnedRepeated(Main) => calling[Main] \in dispatched
    /\ (Ended(Main) /\ calling[Main] # NoCall /\ prev_calling[Main] = calling[Main]
          /\ prev_failure[Main] = "execution")
          => ReturnedRepeated(Main)

C18_Witness ==
    /\ ReturnedRepeated(Main)
    /\ prev_calling[Main] = calling[Main]
    /\ prev_failure[Main] = "execution"
    /\ calling[Main] \notin yielded
    /\ cache[calling[Main]] = None

\* ------------------------------------------------------------------ C19
\* C19 as stated: an invocation returns the repeated-usage message only if
\* the invocation right before it resolved to an equal call.
C19_RepeatedOnlyAfterSameCall ==
    ReturnedRepeated(Main) => prev_calling[Main] = calling[Main]

\* C19 amended: an invocation returns the repeated-usage message only if the
\* invocation right before it resolved to an equal call or failed before
\* _use was entered (in extraction or with tool-not-found); such a failed
\* invocation does not end the repetition: an invocation of an available
\* call c that finds c last used and follows a tool-not-found invocation of
\* a different call returns the repeated-usage message.
C19_RepeatedAfterSameOrUndispatched ==
    /\ ReturnedRepeated(Main)
          => \/ prev_calling[Main] = calling[Main]
             \/ prev_failure[Main] \in {"extraction", "tool not found"}
    /\ (Ended(Main) /\ calling[Main] # NoCall /\ Available(calling[Main].function_name)
          /\ last0[Main] = calling[Main]
          /\ prev_failure[Main] = "tool not found" /\ prev_calling[Main] # calling[Main])
          => ReturnedRepeated(Main)

C19_Witness ==
    /\ ReturnedRepeated(Main)
    /\ calling[Main] = Call("search", "x")
    /\ prev_calling[Main] = Call("Search", "x")
    /\ prev_failure[Main] = "tool not found"
    /\ calling[Main] \in yielded

\* ------------------------------------------------------------------ C20
\* C20 as stated: over serialized invocations on a cache that stores every
\* on_tool_end output, the action of no call is run to completion more than
\* once.
C20_ExecutedAtMostOnce ==
    \A c \in Calls : executions[c] <= 1

\* ------------------------------------------------------------------ C17
\* C17: a thread that found the guard false goes on to on_tool_start and the
\* cache without asking the guard again: its next stage depends on what the
\* cache holds for its call only, also when another thread has meanwhile
\* made that very call the last-used one. (The witness is the race: both
\* threads pass the guard for the same call, both miss the cache, and the
\* action is run twice.)
C17_NoLockBetweenGuardAndStart ==
    [][ \A p \in Procs :
          (pc[p] = "STARTING" /\ pc'[p] # "STARTING")
              => /\ pc'[p] = IF cache[calling[p]] \in {None, ""} THEN "EXECUTING" ELSE "CACHED"
                 /\ Len(log'[p]) = Len(log[p]) + 2
                 /\ log'[p][Len(log[p]) + 1].ev = "on_tool_start"
                 /\ last_used_tool' = calling[p] ]_vars

\* both threads made one invocation each, of the same call and of nothing
\* else, and both ran the action to completion after missing the cache
C17_Witness ==
    /\ \A p \in Procs :
          /\ pc[p] = "DONE"
          /\ FirstUses(p)
          /\ calling[p] = Call("search", "x")
          /\ \E i \in DOMAIN log[p] : log[p][i] = Ev("cache.read", None, 0)
          /\ \E i \in DOMAIN log[p] : log[p][i].ev = "_run" /\ log[p][i].arg = "42"
    /\ dispatched = {Call("search", "x")}
    /\ executions[Call("search", "x")] = 2
====
